---- MODULE Spec2Model ----
(***************************************************************************)
(* A model of util/curses.py: the Curses terminal context with its color   *)
(* pair registry, and the Window class with print, pretty_print,           *)
(* safe_print (the escape sequence interpreters) and new_window.           *)
(*                                                                         *)
(* Text is a sequence of one-character strings; ESC stands for "\033".     *)
(* The terminal layer (the curses window object behind Window._window) is  *)
(* modelled by what it does to the cursor, the attribute state and the     *)
(* cells of the window, including the error it reports when a write        *)
(* reaches the lower right corner of a window.                             *)
(*                                                                         *)
(* At the end of the module: util/rapl.py, the difference of two snapshots *)
(* of the energy counters, and util/io.py, the line reader with its        *)
(* background thread.                                                      *)
(***************************************************************************)
EXTENDS Integers, Sequences, FiniteSets, TLC

VARIABLES root, terminal, windows, next_pair_number, color_pairs, pair_table, call,
          context, input, io

vars == <<root, terminal, windows, next_pair_number, color_pairs, pair_table, call,
          context, input, io>>

(***************************************************************************)
(* Bounds of the model.                                                    *)
(***************************************************************************)
\* The largest screen width and height the terminal reports at initscr().
MaxWidth == 3
MaxHeight == 2
\* The longest plain text passed to print and pretty_print.
MaxLen == 3
\* The number of pieces a safe_print string is put together from.
MaxChunks == 2
\* curses.COLOR_PAIRS, the number of color pairs of the terminal.
COLOR_PAIRS == 3
\* The number of windows that exist at a time (the root window included).
MaxWindows == 3
\* The number of keys read by one generator of wait_for_input.
MaxKeys == 3

None == "None"
ESC == "ESC"
NL == "\n"

Min(a, b) == IF a < b THEN a ELSE b

(***************************************************************************)
(* Curses.Colors and Curses.Modes.                                         *)
(***************************************************************************)
Colors == {"DEFAULT", "BLACK", "BLUE", "CYAN", "GREEN", "MAGENTA", "RED", "WHITE", "YELLOW"}

\* Modes.NORMAL is curses.A_NORMAL, the empty attribute 0.
Modes == {"BLINK", "BOLD", "DIM", "NORMAL", "REVERSE", "UNDERLINE"}

(***************************************************************************)
(* The terminal layer: the attribute state of a window.  An attribute      *)
(* state is the set of modes that are on and the number of the color pair  *)
(* (0: the default pair).  color_pair(n) is the handle of pair n.          *)
(***************************************************************************)
AttrReset == [modes |-> {}, pair |-> 0]

color_pair(n) == [modes |-> {}, pair |-> n]

ModeAttr(mode) == [modes |-> {mode} \ {"NORMAL"}, pair |-> 0]

\* window.attrset(0)
attrset0(w) == [w EXCEPT !.attrs = AttrReset]

\* window.attron(attr): the modes are or-ed in, a color pair other than 0
\* replaces the color pair.
attron(w, attr) ==
    [w EXCEPT !.attrs = [modes |-> @.modes \cup attr.modes,
                         pair |-> IF attr.pair > 0 THEN attr.pair ELSE @.pair]]

(***************************************************************************)
(* The execution state of a call on a window: the curses window, the       *)
(* class-level color pair registry, the cells written and the windows      *)
(* repainted so far, and the exception that ended the call (None: none).   *)
(* sent counts the characters that took effect at the terminal (a cell     *)
(* written, a newline performed), dropped those that were handed to the    *)
(* terminal after it reported ERR.                                         *)
(***************************************************************************)
Raise(e, what) == [e EXCEPT !.raised = what]

Raised(e) == e.raised # None

\* The cell the cursor is on is written with the current attributes, and
\* the cursor advances, wrapping at the right margin.  On the lower right
\* corner the cell is written, the cursor stays and the write reports ERR.
PutCell(e, glyph) ==
    LET w == e.win
        cell == [ch |-> glyph, x |-> w.cur_x, y |-> w.cur_y, attrs |-> w.attrs]
        e1 == [e EXCEPT !.out = Append(@, cell)]
    IN  IF w.cur_x < w.width - 1
        THEN [e1 EXCEPT !.win.cur_x = @ + 1]
        ELSE IF w.cur_y < w.height - 1
             THEN [e1 EXCEPT !.win.cur_x = 0, !.win.cur_y = @ + 1]
             ELSE Raise(e1, "curses.error")

\* A newline moves the cursor to the start of the next row; on the last row
\* of a window that does not scroll it reports ERR.
NewLine(e) ==
    LET w == e.win
    IN  IF w.cur_y < w.height - 1
        THEN [e EXCEPT !.win.cur_x = 0, !.win.cur_y = @ + 1, !.sent = @ + 1]
        ELSE Raise(e, "curses.error")

\* The terminal layer shows the control character ESC as the two cells ^[.
Unctrl(ch) == IF ch = ESC THEN <<"^", "[">> ELSE <<ch>>

RECURSIVE PutCells(_, _)
PutCells(e, glyphs) ==
    IF glyphs = <<>> \/ Raised(e) THEN e
    ELSE PutCells(PutCell(e, Head(glyphs)), Tail(glyphs))

\* The character has reached the screen.
Sent(e1) == [e1 EXCEPT !.sent = @ + 1]

\* window.addch(ch)
addch(e, ch) == IF ch = NL THEN NewLine(e) ELSE Sent(PutCells(e, Unctrl(ch)))

\* window.addstr(s): character by character, up to the first that reports
\* ERR; the characters after it are dropped (e.dropped counts them).
\* AddStrRest is what follows the first character, written in state e1.
RECURSIVE addstr(_, _)
AddStrRest(e1, s) ==
    IF Raised(e1) THEN [e1 EXCEPT !.dropped = @ + Len(s) - 1]
    ELSE addstr(e1, Tail(s))

addstr(e, s) == IF s = <<>> THEN e ELSE AddStrRest(addch(e, Head(s)), s)

\* window.move(y, x)
move(e, y, x) ==
    IF x >= 0 /\ y >= 0 /\ x < e.win.width /\ y < e.win.height
    THEN [e EXCEPT !.win.cur_x = x, !.win.cur_y = y]
    ELSE Raise(e, "curses.error")

\* window.clear(): the window is erased and the cursor goes home.
clear(e) == [e EXCEPT !.win.cur_x = 0, !.win.cur_y = 0]

(***************************************************************************)
(* Window.refresh: the parent chain first, then the window itself.         *)
(***************************************************************************)
\* RefreshOrder with the window repainted before its parent chain.
RECURSIVE RefreshOrderSelfFirst(_, _)
RefreshOrderSelfFirst(ws, i) ==
    IF ws[i].parent = 0 THEN <<i>>
    ELSE <<i>> \o RefreshOrderSelfFirst(ws, ws[i].parent)

RECURSIVE RefreshOrder(_, _)
RefreshOrder(ws, i) ==
    IF ws[i].parent = 0 THEN <<i>>
    ELSE Append(RefreshOrder(ws, ws[i].parent), i)

\* Window.refresh(): the windows of the chain are repainted, and shown is
\* the number of cells that had been written when they were.
refresh(e) == [e EXCEPT !.refreshed = @ \o e.chain, !.shown = Len(e.out)]

(***************************************************************************)
(* Curses.init_color_pair and Curses.get_color_pair.                       *)
(***************************************************************************)
\* curses.init_pair(n, fg, bg) after start_color and use_default_colors: the
\* terminal keeps two pair numbers in reserve beyond COLOR_PAIRS - 1 and binds
\* any number up to COLOR_PAIRS + 1; a larger one is a ValueError.
init_pair(e, n, fg, bg) ==
    IF n \in 1..(COLOR_PAIRS + 1)
    THEN [e EXCEPT !.table = (n :> <<fg, bg>>) @@ @]
    ELSE Raise(e, "ValueError")

\* RegisterPair without the increment of _next_pair_number.
RegisterPairKeepingNumber(e1, fg, bg) ==
    IF Raised(e1) THEN e1
    ELSE [e1 EXCEPT !.pairs = @ @@ (<<fg, bg>> :> color_pair(e1.next))]

\* The rest of init_color_pair, e1 being the state after init_pair.
RegisterPair(e1, fg, bg) ==
    IF Raised(e1) THEN e1
    ELSE [e1 EXCEPT !.pairs = @ @@ (<<fg, bg>> :> color_pair(e1.next)),
                    !.next = @ + 1]

\* init_color_pair with the last pair number taken to be COLOR_PAIRS.
init_color_pair_one_more(e, fg, bg) ==
    IF <<fg, bg>> \in DOMAIN e.pairs THEN e
    ELSE IF e.next > COLOR_PAIRS
         THEN [e EXCEPT !.pairs = @ @@ (<<fg, bg>> :> color_pair(0))]
         ELSE RegisterPair(init_pair(e, e.next, fg, bg), fg, bg)

init_color_pair(e, fg, bg) ==
    IF <<fg, bg>> \in DOMAIN e.pairs THEN e
    ELSE IF e.next > COLOR_PAIRS - 1
         THEN [e EXCEPT !.pairs = @ @@ (<<fg, bg>> :> color_pair(0))]
         ELSE RegisterPair(init_pair(e, e.next, fg, bg), fg, bg)

\* The registry after get_color_pair(fg, bg); the handle it returns is
\* pairs[<<fg, bg>>] of the result.
get_color_pair(e, fg, bg) ==
    IF <<fg, bg>> \notin DOMAIN e.pairs THEN init_color_pair(e, fg, bg) ELSE e

(***************************************************************************)
(* str.splitlines(keepends=True) and str.rstrip() on the model's alphabet. *)
(***************************************************************************)
Whitespace == {" ", NL}

RECURSIVE splitlines(_)
splitlines(s) ==
    IF s = <<>> THEN <<>>
    ELSE LET nls == {i \in 1..Len(s) : s[i] = NL}
             cut == IF nls = {} THEN Len(s)
                    ELSE CHOOSE i \in nls : \A j \in nls : i <= j
         IN  <<SubSeq(s, 1, cut)>> \o splitlines(SubSeq(s, cut + 1, Len(s)))

RECURSIVE rstrip(_)
rstrip(s) ==
    IF s # <<>> /\ s[Len(s)] \in Whitespace THEN rstrip(SubSeq(s, 1, Len(s) - 1))
    ELSE s

(***************************************************************************)
(* Window.print.  PrintLines is the loop over the lines; it yields the     *)
(* execution state and the value of complete.                              *)
(***************************************************************************)
\* new_y of a line, for the curses window w.
NewY(w, line) == w.cur_y + ((w.cur_x + Len(line)) \div w.width)

\* LineText with the count of the cells that remain one too large.
LineTextOneTooMany(w, line) ==
    LET new_y == NewY(w, line)
        end == (w.width - w.cur_x) + ((w.height - 1) - w.cur_y) * w.width + 1
    IN  IF new_y < w.height - 1 THEN line
        ELSE IF new_y = w.height - 1 THEN rstrip(line)
        ELSE SubSeq(line, 1, Min(end, Len(line)))

\* What print writes of a line: the line, the line without trailing
\* whitespace, or the part of it that still fits on the screen.
LineText(w, line) ==
    LET new_y == NewY(w, line)
        end == (w.width - w.cur_x) + ((w.height - 1) - w.cur_y) * w.width
    IN  IF new_y < w.height - 1 THEN line
        ELSE IF new_y = w.height - 1 THEN rstrip(line)
        ELSE SubSeq(line, 1, Min(end, Len(line)))

\* After the line is written (state e1): the next line when this one ended
\* above the last row (more), else complete = False and the loop ends.
RECURSIVE PrintLines(_, _)
PrintLine(e1, more, rest) ==
    IF Raised(e1) THEN [e |-> e1, complete |-> TRUE]
    ELSE IF more THEN PrintLines(e1, rest)
    ELSE [e |-> e1, complete |-> FALSE]

PrintLines(e, lines) ==
    IF lines = <<>> THEN [e |-> e, complete |-> TRUE]
    ELSE PrintLine(addstr(e, LineText(e.win, Head(lines))),
                   NewY(e.win, Head(lines)) < e.win.height - 1,
                   Tail(lines))

\* The end of print: the refresh, unless an exception ended the loop.
PrintEnd(r, refreshArg) ==
    IF Raised(r.e) \/ ~refreshArg THEN r ELSE [r EXCEPT !.e = refresh(r.e)]

print(e, string, pos, refreshArg) ==
    LET e1 == IF pos # None THEN move(e, pos[2], pos[1]) ELSE e
    IN  IF Raised(e1) THEN [e |-> e1, complete |-> TRUE]
        ELSE PrintEnd(PrintLines(e1, splitlines(string)), refreshArg)

(***************************************************************************)
(* Window.pretty_print.                                                    *)
(***************************************************************************)
RECURSIVE AttrOnModes(_, _)
AttrOnModes(w, modes) ==
    IF modes = <<>> THEN w
    ELSE AttrOnModes(attron(w, ModeAttr(Head(modes))), Tail(modes))

\* window.attron(Curses.get_color_pair(fg, bg)), e2 being the state after
\* get_color_pair.
AttrOnPair(e2, fg, bg) ==
    IF Raised(e2) THEN e2 ELSE [e2 EXCEPT !.win = attron(@, e2.pairs[<<fg, bg>>])]

\* The attributes are reset, the modes and the color pair are set.
PrettyAttrs(e, fg, bg, modes) ==
    AttrOnPair(get_color_pair([e EXCEPT !.win = AttrOnModes(attrset0(@), modes)], fg, bg),
               fg, bg)

\* The end of pretty_print, r being the outcome of print.
PrettyEnd(r) == IF Raised(r.e) THEN r ELSE [r EXCEPT !.e.win = attrset0(@)]

pretty_print(e, string, pos, refreshArg, fgArg, bgArg, modes) ==
    PrettyEnd(print(PrettyAttrs(e, IF fgArg = None THEN "DEFAULT" ELSE fgArg,
                                   IF bgArg = None THEN "DEFAULT" ELSE bgArg, modes),
                    string, pos, refreshArg))

(***************************************************************************)
(* The sequence interpreters of safe_print.  A position is an index into   *)
(* the text, counted from 1.  XxxMatch(text, position) is the length of    *)
(* the match of the interpreter's regular expression at the position, 0    *)
(* when it does not match.                                                 *)
(***************************************************************************)
Digits == {"0", "1", "2", "3", "4", "5", "6", "7", "8", "9"}

At(text, i) == IF i \in 1..Len(text) THEN text[i] ELSE None

\* The length of the longest run of characters of the set cs at position i.
RECURSIVE RunLen(_, _, _)
RunLen(text, i, cs) ==
    IF At(text, i) \in cs THEN 1 + RunLen(text, i + 1, cs) ELSE 0

\* ModeInterpreter.regex: \033\[([0-9]+;?)+m, n being the length of the run
\* of digits and semicolons after "ESC [".
ModeMatchRun(text, position, n) ==
    IF /\ At(text, position) = ESC
       /\ At(text, position + 1) = "["
       /\ n > 0
       /\ text[position + 2] \in Digits
       /\ \A i \in (position + 2)..(position + n) :
              ~(text[i] = ";" /\ text[i + 1] = ";")
       /\ At(text, position + 2 + n) = "m"
    THEN n + 3
    ELSE 0

ModeMatch(text, position) ==
    ModeMatchRun(text, position, RunLen(text, position + 2, Digits \cup {";"}))

\* MoveInterpreter.regex: \033\[([0-9]+);([0-9]+)H, n1 and n2 being the
\* lengths of the two runs of digits.
MoveMatchRuns(text, position, n1, n2) ==
    IF /\ At(text, position) = ESC
       /\ At(text, position + 1) = "["
       /\ n1 > 0
       /\ At(text, position + 2 + n1) = ";"
       /\ n2 > 0
       /\ At(text, position + 3 + n1 + n2) = "H"
    THEN n1 + n2 + 4
    ELSE 0

MoveMatchRun(text, position, n1) ==
    MoveMatchRuns(text, position, n1, RunLen(text, position + 3 + n1, Digits))

MoveMatch(text, position) ==
    MoveMatchRun(text, position, RunLen(text, position + 2, Digits))

\* ClearInterpreter.regex: \033\[[0-9]J
ClearMatch(text, position) ==
    IF /\ At(text, position) = ESC
       /\ At(text, position + 1) = "["
       /\ At(text, position + 2) \in Digits
       /\ At(text, position + 3) = "J"
    THEN 4
    ELSE 0

\* GraphicsInterpreter.regex: \033(\(|\))(A|B|0|1|2).\033(\(|\))(A|B|0|1|2)
GraphicsMatch(text, position) ==
    IF /\ At(text, position) = ESC
       /\ At(text, position + 1) \in {"(", ")"}
       /\ At(text, position + 2) \in {"A", "B", "0", "1", "2"}
       /\ At(text, position + 3) \notin {None, NL}
       /\ At(text, position + 4) = ESC
       /\ At(text, position + 5) \in {"(", ")"}
       /\ At(text, position + 6) \in {"A", "B", "0", "1", "2"}
    THEN 7
    ELSE 0

\* str.split(";")
RECURSIVE split(_)
split(s) ==
    LET semis == {i \in 1..Len(s) : s[i] = ";"}
    IN  IF semis = {} THEN <<s>>
        ELSE LET cut == CHOOSE i \in semis : \A j \in semis : i <= j
             IN  <<SubSeq(s, 1, cut - 1)>> \o split(SubSeq(s, cut + 1, Len(s)))

\* The tables of ModeInterpreter.interpret.
ColorDigit ==
    ("0" :> "BLACK") @@ ("1" :> "RED") @@ ("2" :> "GREEN") @@ ("3" :> "YELLOW") @@
    ("4" :> "BLUE") @@ ("5" :> "MAGENTA") @@ ("6" :> "CYAN") @@ ("7" :> "WHITE") @@
    ("9" :> "DEFAULT")

InFgColors(option) == Len(option) = 2 /\ option[1] = "3" /\ option[2] \in DOMAIN ColorDigit

InBgColors(option) == Len(option) = 2 /\ option[1] = "4" /\ option[2] \in DOMAIN ColorDigit

InAttributes(option) == option \in {<<"1">>, <<"2">>, <<"2", "2">>}

AttributeOf(option) ==
    IF option = <<"1">> THEN "BOLD" ELSE IF option = <<"2">> THEN "DIM" ELSE "NORMAL"

\* The loop over the options of a mode sequence: the window and fg, bg.
RECURSIVE ModeOptions(_, _, _, _)
ModeOptions(w, options, fg, bg) ==
    IF options = <<>> THEN [win |-> w, fg |-> fg, bg |-> bg]
    ELSE LET option == Head(options)
             w1 == IF InFgColors(option) \/ InBgColors(option) THEN w
                   ELSE IF InAttributes(option) THEN attron(w, ModeAttr(AttributeOf(option)))
                   ELSE IF option = <<"0">> THEN attrset0(w)
                   ELSE w
             fg1 == IF InFgColors(option) THEN ColorDigit[option[2]]
                    ELSE IF InBgColors(option) \/ InAttributes(option) THEN fg
                    ELSE IF option = <<"0">> THEN "DEFAULT"
                    ELSE fg
             bg1 == IF InFgColors(option) THEN bg
                    ELSE IF InBgColors(option) THEN ColorDigit[option[2]]
                    ELSE IF InAttributes(option) THEN bg
                    ELSE IF option = <<"0">> THEN "DEFAULT"
                    ELSE bg
         IN  ModeOptions(w1, Tail(options), fg1, bg1)

\* Each XxxInterpret yields the execution state and the position after the
\* sequence.  ModeColor sets the color pair of fg and bg of r, the outcome
\* of the loop over the options.
ModeColor(e, r, position) ==
    [e |-> AttrOnPair(get_color_pair([e EXCEPT !.win = r.win], r.fg, r.bg), r.fg, r.bg),
     position |-> position]

\* n is the length of the sequence.
ModeSequence(e, text, position, n) ==
    ModeColor(e,
              ModeOptions(e.win, split(SubSeq(text, position + 2, position + n - 2)),
                          "DEFAULT", "DEFAULT"),
              position + n)

ModeInterpret(e, text, position) ==
    ModeSequence(e, text, position, ModeMatch(text, position))

\* (y, x) are the two strings of sequence.split(";"); the comparison of a
\* string with the integer 0 in "x >= 0" raises TypeError.
MoveInterpret(e, text, position) ==
    [e |-> Raise(e, "TypeError"), position |-> position + MoveMatch(text, position)]

ClearInterpret(e, text, position) ==
    [e |-> IF At(text, position + 2) = "2" THEN clear(e) ELSE e,
     position |-> position + 4]

\* The keys of the table graphisc.
GraphicsKeys == {"q", "x", "j", "k", "l", "m", "n", "t", "u", "v", "w"}

GraphicsInterpret(e, text, position) ==
    LET sequence == At(text, position + 3)
    IN  [e |-> IF sequence \in GraphicsKeys THEN PutCells(e, <<"ACS_" \o sequence>>) ELSE e,
         position |-> position + 7]

\* DefaultInterpreter.interpret: pretty_print with the default refresh=True.
DefaultInterpret(e, text, position) ==
    [e |-> pretty_print(e, <<text[position]>>, None, TRUE, None, None, <<"UNDERLINE">>).e,
     position |-> position + 1]

\* The first interpreter of the list that can interpret the sequence.
SelectInterpreter(text, position) ==
    IF ModeMatch(text, position) > 0 THEN "Mode"
    ELSE IF MoveMatch(text, position) > 0 THEN "Move"
    ELSE IF ClearMatch(text, position) > 0 THEN "Clear"
    ELSE IF GraphicsMatch(text, position) > 0 THEN "Graphics"
    ELSE "Default"

Interpret(interpreter, e, text, position) ==
    CASE interpreter = "Mode" -> ModeInterpret(e, text, position)
      [] interpreter = "Move" -> MoveInterpret(e, text, position)
      [] interpreter = "Clear" -> ClearInterpret(e, text, position)
      [] interpreter = "Graphics" -> GraphicsInterpret(e, text, position)
      [] OTHER -> DefaultInterpret(e, text, position)

\* clean_up: the mode interpreter resets the attributes, the others do nothing.
clean_up(interpreter, e) ==
    IF interpreter = "Mode" THEN [e EXCEPT !.win = attrset0(@)] ELSE e

(***************************************************************************)
(* Window.safe_print.  SafeLoop is the while loop; it yields the execution *)
(* state and the value of complete.  e.steps records each interpreter      *)
(* applied: the marker position and the position it returned, the curses   *)
(* window and the number of cells written before and after it, and the     *)
(* exception it raised.  e.runs records each plain run printed.            *)
(***************************************************************************)
\* string.index("\033", cur_pos); 0 stands for ValueError.
IndexOfEsc(string, cur_pos) ==
    LET found == {i \in cur_pos..Len(string) : string[i] = ESC}
    IN  IF found = {} THEN 0 ELSE CHOOSE i \in found : \A j \in found : i <= j

\* The record of an interpreter applied in the state e1 with the outcome i.
Step(interpreter, esc_seq, e1, i) ==
    [interpreter |-> interpreter, marker |-> esc_seq, position |-> i.position,
     before |-> e1.win, after |-> i.e.win, cells |-> <<Len(e1.out), Len(i.e.out)>>,
     raised |-> i.e.raised]

\* The loop of safe_print, step by step: SafePrinted after the plain text
\* before the sequence at esc_seq is printed (p: the outcome of print),
\* SafeInterpreted after the interpreter is applied (e2: the state it left,
\* with the step recorded).
RECURSIVE SafeLoop(_, _, _, _)
SafeInterpreted(string, interpreter, position, e2) ==
    IF Raised(e2) THEN [e |-> e2, complete |-> TRUE]
    ELSE SafeLoop(e2, string, position, interpreter)

SafeRecorded(string, interpreter, esc_seq, e1, i) ==
    SafeInterpreted(string, interpreter, i.position,
                    [i.e EXCEPT !.steps = Append(@, Step(interpreter, esc_seq, e1, i))])

SafeInterpret(string, interpreter, esc_seq, e1) ==
    SafeRecorded(string, interpreter, esc_seq, e1,
                 Interpret(interpreter, e1, string, esc_seq))

\* SafePrinted going on to the sequence after a print that reported the
\* screen full.
SafePrintedThrough(string, cur_interpreter, esc_seq, p) ==
    IF esc_seq = 0 \/ Raised(p.e) THEN p
    ELSE SafeInterpret(string, SelectInterpreter(string, esc_seq), esc_seq,
                       clean_up(cur_interpreter, p.e))

SafePrinted(string, cur_interpreter, esc_seq, p) ==
    IF esc_seq = 0 \/ Raised(p.e) THEN p
    ELSE IF ~p.complete THEN [e |-> p.e, complete |-> FALSE]
    ELSE SafeInterpret(string, SelectInterpreter(string, esc_seq), esc_seq,
                       clean_up(cur_interpreter, p.e))

\* The record of a plain run printed, string[first..last], with the outcome
\* p of print; cells is the number of cells written before it.
Run(p, first, last, cells) ==
    [p EXCEPT !.e.runs = Append(@, [first |-> first, last |-> last,
                                    complete |-> p.complete, raised |-> p.e.raised,
                                    cells |-> <<cells, Len(p.e.out)>>])]

\* esc_seq = 0: no further ESC, the rest of the string is printed.
SafeNext(e, string, cur_pos, cur_interpreter, esc_seq) ==
    SafePrinted(string, cur_interpreter, esc_seq,
                IF esc_seq = 0
                THEN Run(print(e, SubSeq(string, cur_pos, Len(string)), None, FALSE),
                         cur_pos, Len(string), Len(e.out))
                ELSE IF esc_seq > cur_pos
                THEN Run(print(e, SubSeq(string, cur_pos, esc_seq - 1), None, FALSE),
                         cur_pos, esc_seq - 1, Len(e.out))
                ELSE [e |-> e, complete |-> TRUE])

SafeLoop(e, string, cur_pos, cur_interpreter) ==
    IF cur_pos > Len(string) THEN [e |-> e, complete |-> TRUE]
    ELSE SafeNext(e, string, cur_pos, cur_interpreter, IndexOfEsc(string, cur_pos))

\* The end of safe_print, r being the outcome of the loop.
SafeEnd(r, refreshArg) ==
    IF Raised(r.e) THEN r
    ELSE IF refreshArg THEN [r EXCEPT !.e = refresh([@ EXCEPT !.win = attrset0(@)])]
    ELSE [r EXCEPT !.e.win = attrset0(@)]

safe_print(e, string, pos, refreshArg) ==
    LET e1 == IF pos # None THEN move(e, pos[2], pos[1]) ELSE e
    IN  IF Raised(e1) THEN [e |-> e1, complete |-> TRUE]
        ELSE SafeEnd(SafeLoop(e1, string, 1, "Default"), refreshArg)

(***************************************************************************)
(* curses.newwin(nlines, ncols, begin_y, begin_x) on a screen of the given *)
(* size: the origin is a position of the screen, 0 lines or columns stand  *)
(* for "up to the edge of the screen", and a window without lines or       *)
(* columns is refused (NULL).                                              *)
(***************************************************************************)
NULL == [width |-> 0, height |-> 0]

newwin(screen, nlines, ncols, begin_y, begin_x) ==
    LET lines == IF nlines = 0 THEN screen.height - begin_y ELSE nlines
        cols == IF ncols = 0 THEN screen.width - begin_x ELSE ncols
    IN  IF begin_y < 0 \/ begin_x < 0 \/ nlines < 0 \/ ncols < 0 \/ lines <= 0 \/ cols <= 0
        THEN NULL
        ELSE [begin_x |-> begin_x, begin_y |-> begin_y, width |-> cols, height |-> lines,
              cur_x |-> 0, cur_y |-> 0, attrs |-> AttrReset, delay |-> -1]

\* Curses.new_window(x, y, width, height)
Curses_new_window(screen, x, y, width, height) == newwin(screen, height, width, y, x)

\* The window stdscr that curses.initscr() returns: the first initscr()
\* makes it, with the size of the screen, and every later one returns the
\* same window, in the state it was left in.  t.delay is its read timeout.
stdscr(t, width, height) ==
    [newwin([width |-> width, height |-> height], 0, 0, 0, 0) EXCEPT !.delay = t.delay]

\* Window.__init__(window, parent): parent is the index of the parent window,
\* 0 for the root window.  delay is the read timeout of the curses window,
\* timeout the one the Window has recorded (self._timeout).
Window(window, parent) ==
    [parent |-> parent, timeout |-> -1, delay |-> window.delay,
     begin_x |-> window.begin_x, begin_y |-> window.begin_y,
     width |-> window.width, height |-> window.height,
     cur_x |-> window.cur_x, cur_y |-> window.cur_y, attrs |-> window.attrs]

(***************************************************************************)
(* Curses.Keys, Window.timeout, Window.get_user_input and the loop of      *)
(* Window.wait_for_input.  A value of Python is the record of its type and *)
(* its number: int(n) the integer n, chr(n) the string of the one          *)
(* character with the code n.  An IntEnum member is equal to its integer.  *)
(***************************************************************************)
int(n) == [type |-> "int", value |-> n]

chr(n) == [type |-> "str", value |-> n]

\* curses.KEY_MIN, the least code of a special key.
KEY_MIN == 257

Keys ==
    [LEFT |-> 260, RIGHT |-> 261, UP |-> 259, DOWN |-> 258, HOME |-> 262, END |-> 360,
     PAGE_UP |-> 339, PAGE_DOWN |-> 338, ESC |-> 27, BACKSPACE |-> 263,
     F0 |-> 264, F1 |-> 265, F2 |-> 266, F3 |-> 267, F4 |-> 268, F5 |-> 269, F6 |-> 270,
     F7 |-> 271, F8 |-> 272, F9 |-> 273, F10 |-> 274, F11 |-> 275, F12 |-> 276,
     MOUSE |-> 409, RESIZE |-> 410, REFRESH |-> 373, NOKEY |-> -1]

\* list(Curses.Keys), as the set of the integers.
KeyList == {Keys[k] : k \in DOMAIN Keys}

\* self._window.timeout(delay), the call of the terminal layer.
window_timeout(w, delay) == [w EXCEPT !.delay = delay]

\* Window.timeout(timeout) on the window w: the window, and the timeouts
\* set at the terminal layer.
timeout(w, t) ==
    IF w.timeout # t
    THEN [win |-> [window_timeout(w, t) EXCEPT !.timeout = t], set |-> <<t>>]
    ELSE [win |-> w, set |-> <<>>]

\* UserInput without the test for the members of Curses.Keys.
UserInputBelowFloor(code) ==
    IF code < KEY_MIN THEN chr(code) ELSE int(code)

\* What get_user_input makes of the code that window.getch() returned.
UserInput(code) ==
    IF code \notin KeyList /\ code < KEY_MIN THEN chr(code) ELSE int(code)

\* Window.get_user_input(timeout) on the window w, getch() returning code:
\* the window, the timeouts set at the terminal layer, the timeout the
\* read ran under, and the value returned.
UserInputRead(r, code) ==
    [win |-> r.win, set |-> r.set, delay |-> r.win.delay, value |-> UserInput(code)]

get_user_input(w, t, code) == UserInputRead(timeout(w, t), code)

\* wait_for_input yielding the key with a reaction after its action.
wait_for_input_yielding_all(g, user_input) ==
    IF user_input \in g.reactions
    THEN [g EXCEPT !.keys = Append(@, user_input), !.invoked = Append(@, user_input),
                   !.yielded = Append(@, user_input), !.generator = "suspended"]
    ELSE [g EXCEPT !.keys = Append(@, user_input), !.yielded = Append(@, user_input),
                   !.generator = "suspended"]

\* One turn of the loop of wait_for_input in the generator g (the record of
\* the reaction table, the keys read, the actions invoked and the keys
\* yielded) with the key user_input: the action of the key is invoked and
\* the loop goes on, or the key is yielded and the generator is suspended.
wait_for_input(g, user_input) ==
    IF user_input \in g.reactions
    THEN [g EXCEPT !.keys = Append(@, user_input), !.invoked = Append(@, user_input),
                   !.generator = "running"]
    ELSE [g EXCEPT !.keys = Append(@, user_input), !.yielded = Append(@, user_input),
                   !.generator = "suspended"]

(***************************************************************************)
(* Curses.__enter__ and Curses.__exit__.  The state of the context is the  *)
(* record c of _root (root), the windows, the terminal and the exception   *)
(* raised.  The capabilities of the terminal (caps) are what initscr()     *)
(* finds in the description of the terminal: "civis", the cursor can be    *)
(* made invisible and normal again, and "default_colors", the terminal has *)
(* default colors.  Before initscr() none is known.                        *)
(***************************************************************************)
AllCaps == {"civis", "default_colors"}

\* The terminal after a call of the function of the terminal layer named:
\* t.trace is the sequence of the calls that the method running has made.
Traced(t, function) == [t EXCEPT !.trace = Append(@, function)]

\* curses.initscr() on a terminal of the given capabilities.
initscr(t, caps) == [Traced(t, "initscr") EXCEPT !.initialised = TRUE, !.caps = caps]

\* curses.noecho() and curses.echo()
noecho(t) == [Traced(t, "noecho") EXCEPT !.echo = FALSE]

echo(t) == [Traced(t, "echo") EXCEPT !.echo = TRUE]

\* curses.cbreak() and curses.nocbreak()
cbreak(t) == [Traced(t, "cbreak") EXCEPT !.cbreak = TRUE]

nocbreak(t) == [Traced(t, "nocbreak") EXCEPT !.cbreak = FALSE]

\* curses.curs_set(visibility).  The terminal layer keeps the visibility
\* last asked for (t.visibility, -1 before the first call) and does nothing
\* when it is asked for again; else it records the new one, and changes
\* the cursor or, on a terminal that cannot change the visibility of the
\* cursor, reports ERR.
CursSet(c, visibility) ==
    IF c.terminal.visibility = visibility THEN c
    ELSE IF "civis" \in c.terminal.caps
         THEN [c EXCEPT !.terminal.cursor = visibility,
                        !.terminal.visibility = visibility]
         ELSE Raise([c EXCEPT !.terminal.visibility = visibility], "curses.error")

curs_set(c, visibility) ==
    CursSet([c EXCEPT !.terminal = Traced(@, "curs_set")], visibility)

\* curses.start_color()
start_color(c) == [c EXCEPT !.terminal = [Traced(@, "start_color") EXCEPT !.colors = TRUE]]

\* curses.use_default_colors(): ERR on a terminal without default colors.
UseDefaultColors(c) ==
    IF "default_colors" \in c.terminal.caps THEN c ELSE Raise(c, "curses.error")

use_default_colors(c) ==
    UseDefaultColors([c EXCEPT !.terminal = Traced(@, "use_default_colors")])

\* self._root.keypad(flag)
keypad(c, flag) == [c EXCEPT !.terminal = [Traced(@, "keypad") EXCEPT !.keypad = flag]]

\* curses.endwin()
endwin(t) == [Traced(t, "endwin") EXCEPT !.initialised = FALSE]

\* __enter__ after curs_set(0), c2 being the state it left.
EnterColors(c2) ==
    IF Raised(c2) THEN c2 ELSE use_default_colors(start_color(c2))

EnterKeypad(c3) == IF Raised(c3) THEN c3 ELSE keypad(c3, TRUE)

\* Curses.__enter__ without the test for a context already acquired.
CursesEnterAgain(c, width, height, caps) ==
    EnterKeypad(EnterColors(curs_set(
        [c EXCEPT !.root = "stdscr",
                  !.windows = <<Window(stdscr(c.terminal, width, height), 0)>>,
                  !.terminal = cbreak(noecho(initscr(@, caps)))], 0)))

\* Curses.__enter__ on a terminal of the given size and capabilities.
CursesEnter(c, width, height, caps) ==
    IF c.root # None THEN c
    ELSE EnterKeypad(EnterColors(curs_set(
             [c EXCEPT !.root = "stdscr",
                       !.windows = <<Window(stdscr(c.terminal, width, height), 0)>>,
                       !.terminal = cbreak(noecho(initscr(@, caps)))], 0)))

\* __exit__ after curs_set(1), c2 being the state it left.
ExitRestore(c2) ==
    IF Raised(c2) THEN c2
    ELSE [c2 EXCEPT !.terminal = endwin(nocbreak(echo(@))),
                    !.root = None, !.windows = <<>>]

\* stdscr outlives endwin(): the terminal keeps the read timeout that the
\* root window had.
KeepStdscr(c, c2) ==
    IF c.windows = <<>> THEN c2 ELSE [c2 EXCEPT !.terminal.delay = c.windows[1].delay]

\* Curses.__exit__(type, value, traceback)
CursesExit(c) ==
    IF c.root = None THEN c
    ELSE KeepStdscr(c, ExitRestore(curs_set(keypad(c, FALSE), 1)))

(***************************************************************************)
(* The state machine.  call holds the call just made, with its arguments   *)
(* and its outcome, until the caller goes on (Resume).                     *)
(***************************************************************************)
NoCall == [op |-> None]

Idle == call = NoCall

\* No generator of wait_for_input exists.
NoInput == [generator |-> None]

\* No NonBlockingStreamIO exists.
NoStream == [thread |-> None, reader |-> None]

Init ==
    /\ root = None
    /\ terminal = [initialised |-> FALSE, echo |-> TRUE, cbreak |-> FALSE,
                   cursor |-> 1, colors |-> FALSE, keypad |-> FALSE, caps |-> {},
                   delay |-> -1, trace |-> <<>>, visibility |-> -1]
    /\ context = "outside"
    /\ input = NoInput
    /\ io = NoStream
    /\ windows = <<>>
    /\ next_pair_number = 1
    /\ color_pairs = <<>>
    /\ pair_table = <<>>
    /\ call = NoCall

\* The execution state at the start of a call on window i.
Exec(i) ==
    [win |-> windows[i], next |-> next_pair_number, pairs |-> color_pairs,
     table |-> pair_table, chain |-> RefreshOrder(windows, i),
     out |-> <<>>, sent |-> 0, dropped |-> 0, refreshed |-> <<>>, steps |-> <<>>,
     runs |-> <<>>, shown |-> 0, raised |-> None]

\* The state after a call on window i that ended in the execution state e.
Commit(i, e) ==
    /\ windows' = [windows EXCEPT ![i] = e.win]
    /\ next_pair_number' = e.next
    /\ color_pairs' = e.pairs
    /\ pair_table' = e.table

\* A call that raises returns no value (complete: None).
Outcome(r) ==
    [complete |-> IF Raised(r.e) THEN None ELSE r.complete,
     raised |-> r.e.raised, out |-> r.e.out,
     sent |-> r.e.sent, dropped |-> r.e.dropped, refreshed |-> r.e.refreshed,
     steps |-> r.e.steps, runs |-> r.e.runs, shown |-> r.e.shown]

\* Curses.__enter__ on a terminal of the given size that has every
\* capability, at the head of a with statement.
Enter(width, height) ==
    /\ Idle
    /\ root = None
    /\ root' = "stdscr"
    /\ windows' = <<Window(stdscr(terminal, width, height), 0)>>
    /\ terminal' = [terminal EXCEPT !.initialised = TRUE, !.echo = FALSE, !.cbreak = TRUE,
                                    !.cursor = 0, !.visibility = 0,
                                    !.colors = TRUE, !.keypad = TRUE,
                                    !.caps = AllCaps,
                                    !.trace = <<"initscr", "noecho", "cbreak", "curs_set",
                                                "start_color", "use_default_colors",
                                                "keypad">>]
    /\ context' = "body"
    /\ UNCHANGED <<next_pair_number, color_pairs, pair_table, call, input, io>>

\* The state after a call on window i with the arguments args and the
\* outcome r.
Called(i, args, r) ==
    /\ Commit(i, r.e)
    /\ call' = args @@ [win |-> i, before |-> windows[i]] @@ Outcome(r)
    /\ UNCHANGED <<root, terminal, context, input, io>>

\* Window.print(string, pos, refresh) on window i.
WindowPrint(i, string, pos, refreshArg) ==
    /\ Idle
    /\ Called(i, [op |-> "print", string |-> string, pos |-> pos, refresh |-> refreshArg],
              print(Exec(i), string, pos, refreshArg))

\* Window.pretty_print(string, pos, refresh, fg, bg, modes) on window i.
WindowPrettyPrint(i, string, pos, refreshArg, fg, bg, modes) ==
    /\ Idle
    /\ Called(i, [op |-> "pretty_print", string |-> string, pos |-> pos,
                  refresh |-> refreshArg, fg |-> fg, bg |-> bg, modes |-> modes],
              pretty_print(Exec(i), string, pos, refreshArg, fg, bg, modes))

\* Window.safe_print(string, pos, refresh) on window i.
WindowSafePrint(i, string, pos, refreshArg) ==
    /\ Idle
    /\ Called(i, [op |-> "safe_print", string |-> string, pos |-> pos,
                  refresh |-> refreshArg],
              safe_print(Exec(i), string, pos, refreshArg))

\* RangeError with the width and the height compared with the size of the
\* window instead of with what remains of it beside the origin.
RangeErrorWithoutOrigin(w, h, x, y, width, height) ==
    IF x < 0 \/ x > w THEN "x is out of range"
    ELSE IF y < 0 \/ y > h THEN "y is out of range"
    ELSE IF width < 0 \/ width > w THEN "width is out of range"
    ELSE IF height < 0 \/ height > h THEN "height is out of range"
    ELSE None

\* The checks of Window.new_window on a window of width w and height h:
\* the message of the ValueError raised, None when none is.
RangeError(w, h, x, y, width, height) ==
    IF x < 0 \/ x > w THEN "x is out of range"
    ELSE IF y < 0 \/ y > h THEN "y is out of range"
    ELSE IF width < 0 \/ width > (w - x) THEN "width is out of range"
    ELSE IF height < 0 \/ height > (h - y) THEN "height is out of range"
    ELSE None

\* Window.new_window(x, y, width, height) on window i; widthArg and
\* heightArg are <<n>> for the number n and <<>> for None.  The screen of
\* curses.newwin is the root window.
WindowNewWindow(i, x, y, widthArg, heightArg) ==
    /\ Idle
    /\ LET w == windows[i].width
           h == windows[i].height
           width == IF widthArg = <<>> THEN w - x ELSE widthArg[1]
           height == IF heightArg = <<>> THEN h - y ELSE heightArg[1]
           error == RangeError(w, h, x, y, width, height)
           window == Curses_new_window(windows[1], x, y, width, height)
           raised == IF error # None THEN "ValueError"
                     ELSE IF window = NULL THEN "curses.error" ELSE None
       IN  /\ windows' = IF raised = None THEN Append(windows, Window(window, i))
                         ELSE windows
           /\ call' = [op |-> "new_window", win |-> i, x |-> x, y |-> y,
                       width |-> width, height |-> height,
                       raised |-> raised, message |-> error, before |-> Len(windows),
                       created |-> IF raised = None THEN Len(windows) + 1 ELSE 0]
    /\ UNCHANGED <<root, terminal, next_pair_number, color_pairs, pair_table,
                   context, input, io>>

\* Curses.get_color_pair(fg, bg), called while the terminal context is
\* active.
GetColorPair(fg, bg) ==
    /\ Idle
    /\ root # None
    /\ LET e == get_color_pair([next |-> next_pair_number, pairs |-> color_pairs,
                                table |-> pair_table, raised |-> None], fg, bg)
       IN  /\ next_pair_number' = e.next
           /\ color_pairs' = e.pairs
           /\ pair_table' = e.table
           /\ call' = [op |-> "get_color_pair", fg |-> fg, bg |-> bg,
                       raised |-> e.raised,
                       known |-> <<fg, bg>> \in DOMAIN color_pairs,
                       bound |-> Cardinality(DOMAIN pair_table),
                       handle |-> IF Raised(e) THEN None ELSE e.pairs[<<fg, bg>>]]
    /\ UNCHANGED <<root, terminal, windows, context, input, io>>

\* The state of the context at the start of __enter__ and __exit__.
Context ==
    [root |-> root, windows |-> windows, terminal |-> [terminal EXCEPT !.trace = <<>>],
     raised |-> None]

\* Curses.root_window()
root_window(c) == IF c.windows = <<>> THEN None ELSE "Window"

\* A with statement on the Curses object calls __enter__; the body is
\* entered unless __enter__ raises, and then __exit__ is not called.
WithEnter(width, height, caps) ==
    /\ Idle
    /\ context = "outside"
    /\ LET c == CursesEnter(Context, width, height, caps)
       IN  /\ root' = c.root
           /\ windows' = c.windows
           /\ terminal' = c.terminal
           /\ context' = IF Raised(c) THEN "outside" ELSE "body"
           /\ call' = [op |-> "__enter__", acquired |-> root # None, raised |-> c.raised,
                       before |-> terminal, root_window |-> root_window(c)]
    /\ UNCHANGED <<next_pair_number, color_pairs, pair_table, input, io>>

\* The body of the with statement ends, normally (exception = None) or by
\* an exception, and the with statement calls __exit__.
WithExit(exception) ==
    /\ Idle
    /\ context = "body"
    /\ LET c == CursesExit(Context)
       IN  /\ root' = c.root
           /\ windows' = c.windows
           /\ terminal' = c.terminal
           /\ context' = "outside"
           /\ call' = [op |-> "__exit__", acquired |-> root # None,
                       exception |-> exception, raised |-> c.raised,
                       before |-> terminal, root_window |-> root_window(c)]
    /\ UNCHANGED <<next_pair_number, color_pairs, pair_table, input, io>>

\* __enter__ called on the Curses object, in a with statement or not.
EnterCall(width, height, caps) ==
    /\ Idle
    /\ LET c == CursesEnter(Context, width, height, caps)
       IN  /\ root' = c.root
           /\ windows' = c.windows
           /\ terminal' = c.terminal
           /\ call' = [op |-> "__enter__", acquired |-> root # None, raised |-> c.raised,
                       before |-> terminal, root_window |-> root_window(c)]
    /\ UNCHANGED <<next_pair_number, color_pairs, pair_table, context, input, io>>

\* __exit__ called on the Curses object, in a with statement or not.
ExitCall ==
    /\ Idle
    /\ LET c == CursesExit(Context)
       IN  /\ root' = c.root
           /\ windows' = c.windows
           /\ terminal' = c.terminal
           /\ call' = [op |-> "__exit__", acquired |-> root # None, raised |-> c.raised,
                       before |-> terminal, root_window |-> root_window(c)]
    /\ UNCHANGED <<next_pair_number, color_pairs, pair_table, context, input, io>>

\* Window.refresh() on window i.
WindowRefresh(i) ==
    /\ Idle
    /\ Called(i, [op |-> "refresh"], [e |-> refresh(Exec(i)), complete |-> None])

\* Window.get_user_input(timeout) on window i, code being what getch()
\* returns.
WindowGetUserInput(i, t, code) ==
    /\ Idle
    /\ LET r == get_user_input(windows[i], t, code)
       IN  /\ windows' = [windows EXCEPT ![i] = r.win]
           /\ call' = [op |-> "get_user_input", win |-> i, timeout |-> t, code |-> code,
                       before |-> windows[i], set |-> r.set, delay |-> r.delay,
                       value |-> r.value]
    /\ UNCHANGED <<root, terminal, next_pair_number, color_pairs, pair_table,
                   context, input, io>>

\* Window.timeout(timeout) on window i.
WindowTimeout(i, t) ==
    /\ Idle
    /\ LET r == timeout(windows[i], t)
       IN  /\ windows' = [windows EXCEPT ![i] = r.win]
           /\ call' = [op |-> "timeout", win |-> i, timeout |-> t,
                       before |-> windows[i], set |-> r.set]
    /\ UNCHANGED <<root, terminal, next_pair_number, color_pairs, pair_table,
                   context, input, io>>

\* Window.wait_for_input(reactions, timeout) on window i: the generator is
\* created, and nothing of its body runs before the first next().  The
\* reaction table is the set of its keys; the action of a key records that
\* it was invoked and returns.
WindowWaitForInput(i, reactions, t) ==
    /\ Idle
    /\ input' = [generator |-> "created", win |-> i, reactions |-> reactions,
                 timeout |-> t, keys |-> <<>>, invoked |-> <<>>, yielded |-> <<>>]
    /\ UNCHANGED <<root, terminal, windows, next_pair_number, color_pairs, pair_table,
                   call, context, io>>

\* The generator is inside next(), at the read of a key.
Running == input.generator = "running"

\* The read of a key in the generator, code being what getch() returns:
\* the first read of a next() of the caller, or the read that follows a
\* key with a reaction.  next() returns when a key is yielded.
GeneratorRead(code) ==
    /\ \/ Idle /\ input.generator \in {"created", "suspended"}
       \/ Running
    /\ Len(input.keys) < MaxKeys
    /\ LET r == get_user_input(windows[input.win], input.timeout, code)
           g == wait_for_input(input, r.value)
       IN  /\ windows' = [windows EXCEPT ![input.win] = r.win]
           /\ input' = g
           /\ call' = [op |-> "next", code |-> code, key |-> r.value,
                       returned |-> g.generator = "suspended"]
    /\ UNCHANGED <<root, terminal, next_pair_number, color_pairs, pair_table, context,
                   io>>

\* The caller takes the result of the call, or catches its exception, and
\* goes on.
Resume ==
    /\ ~Idle
    /\ ~Running
    /\ call' = NoCall
    /\ UNCHANGED <<root, terminal, windows, next_pair_number, color_pairs, pair_table,
                   context, input, io>>

(***************************************************************************)
(* The inputs.                                                             *)
(***************************************************************************)
Widths == 1..MaxWidth

Heights == 1..MaxHeight

PlainChars == {"a", " ", NL}

PlainTexts == UNION {[1..n -> PlainChars] : n \in 0..MaxLen}

\* The positions (x, y) passed as pos: none, the first cell, and the last
\* cell of the largest window, which lies outside the smaller ones.
Positions(i) == {None, <<0, 0>>, <<MaxWidth - 1, MaxHeight - 1>>}

\* The pieces of the strings passed to safe_print: plain characters, mode,
\* move, clear and graphics sequences, and malformed sequences.
Chunks ==
    {<<"a">>, <<NL>>, <<"a", "a", "a">>,
     <<ESC, "[", "3", "1", ";", "1", "m">>, <<ESC, "[", "2", "m">>,
     <<ESC, "[", "1", ";", "2", "2", ";", "4", "9", "m">>,
     <<ESC, "[", "4", "1", ";", "0", ";", "5", "m">>,
     <<ESC, "[", "0", ";", "0", "H">>, <<ESC, "[", "2", ";", "3", "H">>,
     <<ESC, "[", "2", "J">>, <<ESC, "[", "0", "J">>,
     <<ESC, "(", "0", "q", ESC, "(", "B">>, <<ESC, "(", "0", "a", ESC, "(", "B">>,
     <<ESC>>, <<ESC, "[">>, <<ESC, "[", "m">>, <<ESC, "[", ";", "1", "m">>,
     <<ESC, "[", "1", ";", "H">>, <<ESC, "(", "0">>}

RECURSIVE ChunkStrings(_)
ChunkStrings(n) ==
    IF n = 0 THEN {<<>>}
    ELSE LET shorter == ChunkStrings(n - 1)
         IN  shorter \cup {s \o c : s \in shorter, c \in Chunks}

SafeStrings == ChunkStrings(MaxChunks)

\* The calls of print and pretty_print.
Next ==
    \/ \E width \in Widths, height \in Heights : Enter(width, height)
    \/ /\ Idle
       /\ \E i \in DOMAIN windows : \E string \in PlainTexts, pos \in Positions(i) :
              WindowPrint(i, string, pos, TRUE)
    \/ /\ Idle
       /\ \E i \in DOMAIN windows : \E string \in PlainTexts, pos \in Positions(i),
                                        fg \in {None, "RED"} :
              WindowPrettyPrint(i, string, pos, TRUE, fg, None, <<"BOLD">>)
    \/ Resume

Spec == Init /\ [][Next]_vars

\* The calls of safe_print, between calls of print and pretty_print.
NextSafe ==
    \/ \E width \in Widths, height \in Heights : Enter(width, height)
    \/ /\ Idle
       /\ \E i \in DOMAIN windows : \E string \in {<<"a">>, <<NL>>} :
              WindowPrint(i, string, None, TRUE)
    \/ /\ Idle
       /\ \E i \in DOMAIN windows :
              WindowPrettyPrint(i, <<"a", "a">>, None, TRUE, "RED", None, <<"BOLD">>)
    \/ /\ Idle
       /\ \E i \in DOMAIN windows : \E string \in SafeStrings :
              WindowSafePrint(i, string, None, TRUE)
    \/ Resume

SpecSafe == Init /\ [][NextSafe]_vars

\* The calls of safe_print alone, with strings of plain runs between a few
\* sequences.
RunChunks ==
    {<<"a">>, <<NL>>, <<"a", "a", "a">>, <<ESC, "[", "1", "m">>, <<ESC, "[", "2", "J">>,
     <<ESC>>}

RECURSIVE RunStrings(_)
RunStrings(n) ==
    IF n = 0 THEN {<<>>}
    ELSE LET shorter == RunStrings(n - 1)
         IN  shorter \cup {s \o c : s \in shorter, c \in RunChunks}

NextRuns ==
    \/ \E width \in Widths, height \in Heights : Enter(width, height)
    \/ /\ Idle
       /\ \E i \in DOMAIN windows : \E string \in RunStrings(MaxChunks) :
              WindowSafePrint(i, string, None, TRUE)
    \/ Resume

SpecRuns == Init /\ [][NextRuns]_vars

\* The creation of windows: a child of the root window, a child of that
\* child, and so on, each call being made on the youngest window.  What
\* new_window does depends on the window it is called on and on the screen
\* alone, and every window is the youngest one when it is created.
Coordinates(n) == (0 - 1)..(n + 1)

Optional(S) == {<<>>} \cup {<<n>> : n \in S}

NextWindows ==
    \/ Enter(MaxWidth, MaxHeight)
    \/ /\ Idle
       /\ windows # <<>>
       /\ Len(windows) < MaxWindows
       /\ \E x \in Coordinates(windows[Len(windows)].width),
             y \in Coordinates(windows[Len(windows)].height),
             width \in Optional(Coordinates(windows[Len(windows)].width)),
             height \in Optional(Coordinates(windows[Len(windows)].height)) :
              WindowNewWindow(Len(windows), x, y, width, height)
    \/ Resume

SpecWindows == Init /\ [][NextWindows]_vars

\* The requests for color pairs.
PairColors == {"DEFAULT", "RED", "GREEN"}

NextColors ==
    \/ Enter(MaxWidth, MaxHeight)
    \/ /\ Idle
       /\ \E fg \in PairColors, bg \in PairColors : GetColorPair(fg, bg)
    \/ Resume

SpecColors == Init /\ [][NextColors]_vars

\* The repaints: windows are created in any window that exists, with the
\* default size, and any window is refreshed.
NextRefresh ==
    \/ Enter(MaxWidth, MaxHeight)
    \/ /\ Idle
       /\ Len(windows) < MaxWindows
       /\ \E i \in DOMAIN windows : \E x \in 0..1, y \in 0..1 :
              WindowNewWindow(i, x, y, <<>>, <<>>)
    \/ /\ Idle
       /\ \E i \in DOMAIN windows : WindowRefresh(i)
    \/ Resume

SpecRefresh == Init /\ [][NextRefresh]_vars

\* The reads of keys: calls of get_user_input, and then one generator of
\* wait_for_input.  The codes getch() returns: characters, ESC, the codes of
\* special keys in and not in Curses.Keys, and -1 when a timeout elapses.
Timeouts == {-1, 0, 100}

NoInputCode(t) == IF t >= 0 THEN {-1} ELSE {}

RawCodes(t) == {0, 27, 97, 113, 255, 260, 263, 330, 410} \cup NoInputCode(t)

GeneratorCodes(t) == {27, 97, 113, 260} \cup NoInputCode(t)

ReactionTables ==
    {{}, {int(27)}, {chr(113), int(260)}, {int(-1), chr(97)}, {chr(27), int(97)}}

NextInput ==
    \/ Enter(MaxWidth, MaxHeight)
    \/ /\ Idle
       /\ windows # <<>>
       /\ input = NoInput
       /\ \E t \in Timeouts : \E code \in RawCodes(t) : WindowGetUserInput(1, t, code)
    \/ /\ Idle
       /\ windows # <<>>
       /\ input = NoInput
       /\ \E reactions \in ReactionTables, t \in Timeouts :
              WindowWaitForInput(1, reactions, t)
    \/ /\ input # NoInput
       /\ \E code \in GeneratorCodes(input.timeout) : GeneratorRead(code)
    \/ Resume

SpecInput == Init /\ [][NextInput]_vars

\* The with statements on one Curses object, on terminals with and without
\* the capabilities, with a body that prints and ends normally or by an
\* exception.
Capabilities == SUBSET AllCaps

NextContext ==
    \/ \E width \in Widths, height \in Heights, caps \in Capabilities :
           WithEnter(width, height, caps)
    \/ /\ Idle
       /\ context = "body"
       /\ windows # <<>>
       /\ \E string \in {<<"a">>, <<NL>>} : WindowPrint(1, string, None, TRUE)
    \/ \E exception \in {None, "Exception"} : WithExit(exception)
    \/ Resume

SpecContext == Init /\ [][NextContext]_vars

\* Reads and timeouts on the root window and on a child of it, in one with
\* statement after the other on one Curses object.  getch() returns the
\* code of a key, or -1 when the read timeout of the curses window is not
\* negative and elapses.
ReadCodes(r) == {97} \cup NoInputCode(r.win.delay)

NextTimeout ==
    \/ WithEnter(MaxWidth, MaxHeight, AllCaps)
    \/ /\ Len(windows) = 1
       /\ WindowNewWindow(1, 0, 0, <<>>, <<>>)
    \/ \E i \in 1..Len(windows), t \in Timeouts : WindowTimeout(i, t)
    \/ \E i \in 1..Len(windows), t \in Timeouts :
           \E code \in ReadCodes(timeout(windows[i], t)) : WindowGetUserInput(i, t, code)
    \/ WithExit(None)
    \/ Resume

SpecTimeout == Init /\ [][NextTimeout]_vars

\* Calls of __enter__ and __exit__ on one Curses object in any order, on
\* terminals with and without the capabilities.
NextAcquire ==
    \/ \E width \in Widths, height \in Heights, caps \in Capabilities :
           EnterCall(width, height, caps)
    \/ ExitCall
    \/ Resume

SpecAcquire == Init /\ [][NextAcquire]_vars

\* The render calls with and without a repaint, on the root window and on
\* a child of it.
RepaintTexts == {<<"a">>, <<"a", NL>>, <<"a", "a", "a">>}

NextRepaint ==
    \/ Enter(MaxWidth, MaxHeight)
    \/ /\ Len(windows) = 1
       /\ WindowNewWindow(1, 0, 0, <<>>, <<>>)
    \/ \E i \in DOMAIN windows, string \in RepaintTexts, refreshArg \in BOOLEAN :
           WindowPrint(i, string, None, refreshArg)
    \/ \E i \in DOMAIN windows, string \in RepaintTexts, refreshArg \in BOOLEAN :
           WindowPrettyPrint(i, string, None, refreshArg, None, None, <<"BOLD">>)
    \/ \E i \in DOMAIN windows, string \in RunStrings(MaxChunks), refreshArg \in BOOLEAN :
           WindowSafePrint(i, string, None, refreshArg)
    \/ Resume

SpecRepaint == Init /\ [][NextRepaint]_vars

(***************************************************************************)
(* The properties of print and pretty_print (Spec).                        *)
(***************************************************************************)
\* The cells from the cursor (x, y) to the lower right corner of window w.
Remaining(w, x, y) == (w.width - x) + ((w.height - 1) - y) * w.width

InWindow(w, x, y) == x \in 0..(w.width - 1) /\ y \in 0..(w.height - 1)

\* The cursor (x, y) at which the call in call starts to write.
StartOfCall ==
    IF call.pos = None THEN <<call.before.cur_x, call.before.cur_y>> ELSE call.pos

\* C2: after any call of print the cursor lies inside the window, every
\* cell written lies inside the window, no character is handed to the
\* terminal past the lower right corner, and no more cells are written than
\* remain from the cursor to the lower right corner.
C2_PrintStaysInsideWindow ==
    call.op = "print" =>
        LET w == windows[call.win]
            start == StartOfCall
        IN  /\ InWindow(w, w.cur_x, w.cur_y)
            /\ \A j \in DOMAIN call.out : InWindow(w, call.out[j].x, call.out[j].y)
            /\ call.dropped = 0
            /\ IF InWindow(w, start[1], start[2])
               THEN Len(call.out) <= Remaining(w, start[1], start[2])
               ELSE call.out = <<>>

\* The overflow case: a text longer than the cells that remain, of which
\* exactly the remaining cells (more than one) are written.
C2_OverflowWritesRemainingCells ==
    /\ call.op = "print"
    /\ InWindow(call.before, StartOfCall[1], StartOfCall[2])
    /\ Remaining(call.before, StartOfCall[1], StartOfCall[2]) > 1
    /\ Len(call.string) > Remaining(call.before, StartOfCall[1], StartOfCall[2])
    /\ Len(call.out) = Remaining(call.before, StartOfCall[1], StartOfCall[2])
    /\ windows[call.win].cur_x = call.before.width - 1
    /\ windows[call.win].cur_y = call.before.height - 1

\* C3: print returns true if and only if every character of the text was
\* written: a call that returns false left some character unwritten.
C3_PrintCompleteIffAllWritten ==
    (call.op = "print" /\ call.raised = None) =>
        (call.complete <=> call.sent = Len(call.string))

\* C6: a print that follows pretty_print writes its text with no attribute:
\* the only attributes a window gets under Spec are those of pretty_print.
C6_PrintAfterPrettyPrintUnattributed ==
    call.op = "print" =>
        \A j \in DOMAIN call.out : call.out[j].attrs = AttrReset

\* The first line of a text, with its terminator, and a line without its
\* terminator.
FirstLine(string) ==
    LET nls == {i \in 1..Len(string) : string[i] = NL}
    IN  IF nls = {} THEN string
        ELSE SubSeq(string, 1, CHOOSE i \in nls : \A j \in nls : i <= j)

WithoutTerminator(line) ==
    IF line # <<>> /\ line[Len(line)] = NL THEN SubSeq(line, 1, Len(line) - 1) ELSE line

\* The characters of the cells written, in the order written.
Glyphs(out) == [j \in DOMAIN out |-> out[j].ch]

\* C14: when the first line of the text would end on the last row of the
\* window, print writes that line without its terminator and with nothing
\* else removed, writes nothing of the lines that follow, and returns false.
C14_LastRowLineWrittenWithoutTerminator ==
    LET w == call.before
        start == StartOfCall
        line == FirstLine(call.string)
    IN  (/\ call.op = "print"
         /\ call.string # <<>>
         /\ InWindow(w, start[1], start[2])
         /\ start[2] + ((start[1] + Len(line)) \div w.width) = w.height - 1) =>
            /\ call.raised = None
            /\ call.complete = FALSE
            /\ Glyphs(call.out) = WithoutTerminator(line)

\* C15: a text without newline that is shorter than what remains of the
\* window from the cursor (cx, cy) is reported complete, and leaves the
\* cursor at column (cx + L) mod width of row cy + (cx + L) div width.
C15_ShortTextCompleteAndCursorAdvanced ==
    LET w == call.before
        start == StartOfCall
        L == Len(call.string)
    IN  (/\ call.op = "print"
         /\ InWindow(w, start[1], start[2])
         /\ \A j \in DOMAIN call.string : call.string[j] # NL
         /\ L < Remaining(w, start[1], start[2])) =>
            /\ call.raised = None
            /\ call.complete = TRUE
            /\ windows[call.win].cur_x = (start[1] + L) % w.width
            /\ windows[call.win].cur_y = start[2] + ((start[1] + L) \div w.width)

(***************************************************************************)
(* The properties of safe_print (SpecSafe).                                *)
(***************************************************************************)
\* C1: safe_print never raises: every call returns its boolean result.
C1_SafePrintNeverRaises ==
    call.op = "safe_print" => (call.raised = None /\ call.complete \in BOOLEAN)

\* C7: between the calls of print, pretty_print and safe_print on a window
\* its attribute state is the reset state.
C7_AttributesResetBetweenCalls ==
    \A i \in DOMAIN windows : windows[i].attrs = AttrReset

\* The number a string of digits denotes.
DigitValue(d) == CHOOSE n \in 0..9 : ToString(n) = d

RECURSIVE Number(_)
Number(digits) ==
    IF digits = <<>> THEN 0
    ELSE 10 * Number(SubSeq(digits, 1, Len(digits) - 1)) + DigitValue(digits[Len(digits)])

\* C8: a move sequence ESC [ row ; col H sets the cursor to (col, row) when
\* that lies inside the window and leaves it unchanged otherwise; the whole
\* sequence is consumed and no exception ends the rendering.
C8_MoveSetsCursorOrLeavesIt ==
    call.op = "safe_print" =>
        \A k \in DOMAIN call.steps :
            LET step == call.steps[k]
                n1 == RunLen(call.string, step.marker + 2, Digits)
                n2 == RunLen(call.string, step.marker + 3 + n1, Digits)
                row == Number(SubSeq(call.string, step.marker + 2, step.marker + 1 + n1))
                col == Number(SubSeq(call.string, step.marker + 3 + n1,
                                     step.marker + 2 + n1 + n2))
                inside == InWindow(step.before, col, row)
            IN  step.interpreter = "Move" =>
                    /\ step.raised = None
                    /\ step.position = step.marker + n1 + n2 + 4
                    /\ step.after.cur_x = IF inside THEN col ELSE step.before.cur_x
                    /\ step.after.cur_y = IF inside THEN row ELSE step.before.cur_y

\* What the parameters of a mode sequence select, parameter by parameter.
RECURSIVE Selected(_, _)
Selected(options, sel) ==
    IF options = <<>> THEN sel
    ELSE LET o == Head(options)
             next == IF Len(o) = 2 /\ o[1] = "3" /\ o[2] \in DOMAIN ColorDigit
                     THEN [sel EXCEPT !.fg = ColorDigit[o[2]]]
                     ELSE IF Len(o) = 2 /\ o[1] = "4" /\ o[2] \in DOMAIN ColorDigit
                     THEN [sel EXCEPT !.bg = ColorDigit[o[2]]]
                     ELSE IF o = <<"1">> THEN [sel EXCEPT !.modes = @ \cup {"BOLD"}]
                     ELSE IF o = <<"2">> THEN [sel EXCEPT !.modes = @ \cup {"DIM"}]
                     ELSE IF o = <<"0">> THEN [modes |-> {}, fg |-> "DEFAULT", bg |-> "DEFAULT"]
                     ELSE sel
         IN  Selected(Tail(options), next)

\* C9: the plain text that follows a mode sequence is written with exactly
\* the attributes the parameters of the sequence select: the modes, and the
\* color pair of the foreground and background.
C9_ModeSequenceSelectsAttributes ==
    call.op = "safe_print" =>
        \A k \in DOMAIN call.steps :
            LET step == call.steps[k]
                sel == Selected(split(SubSeq(call.string, step.marker + 2, step.position - 2)),
                                [modes |-> {}, fg |-> "DEFAULT", bg |-> "DEFAULT"])
                first == step.cells[2] + 1
                last == IF k < Len(call.steps) THEN call.steps[k + 1].cells[1]
                        ELSE Len(call.out)
            IN  step.interpreter = "Mode" =>
                    \A j \in first..last :
                        call.out[j].attrs = [modes |-> sel.modes,
                                             pair |-> color_pairs[<<sel.fg, sel.bg>>].pair]

\* C16: in safe_print the attributes of a mode sequence are reset at the
\* next escape marker, before the interpreter of that marker is applied,
\* whichever it is (a mode sequence starts from the reset state, so two in
\* a row do not accumulate), and a move, clear, graphics or default
\* sequence is always interpreted in the reset attribute state.
C16_CleanUpBeforeNextInterpreter ==
    call.op = "safe_print" =>
        \A k \in DOMAIN call.steps :
            /\ (k > 1 /\ call.steps[k - 1].interpreter = "Mode") =>
                   call.steps[k].before.attrs = AttrReset
            /\ call.steps[k].interpreter # "Mode" =>
                   call.steps[k].before.attrs = AttrReset

\* C17: at each escape marker of safe_print the interpreter applied is the
\* first of mode, move, clear, graphics that recognises the text at the
\* marker, and default exactly when none of the four does; the interpreter
\* returns a position greater than the marker; and each marker lies at or
\* after the position the interpreter before it returned.
C17_InterpretersAdvanceThePosition ==
    call.op = "safe_print" =>
        \A k \in DOMAIN call.steps :
            LET step == call.steps[k]
                mode == ModeMatch(call.string, step.marker) > 0
                move_ == MoveMatch(call.string, step.marker) > 0
                clear_ == ClearMatch(call.string, step.marker) > 0
                graphics == GraphicsMatch(call.string, step.marker) > 0
            IN  /\ call.string[step.marker] = ESC
                /\ step.interpreter = "Mode" <=> mode
                /\ step.interpreter = "Move" <=> (~mode /\ move_)
                /\ step.interpreter = "Clear" <=> (~mode /\ ~move_ /\ clear_)
                /\ step.interpreter = "Graphics" <=>
                       (~mode /\ ~move_ /\ ~clear_ /\ graphics)
                /\ step.interpreter = "Default" <=>
                       (~mode /\ ~move_ /\ ~clear_ /\ ~graphics)
                /\ step.raised = None
                /\ step.position > step.marker
                /\ k > 1 => step.marker >= call.steps[k - 1].position

\* C18: in safe_print every plain run but the last one printed was
\* reported complete; after a plain run reported incomplete no sequence
\* is interpreted and no cell is written; and safe_print returns false if
\* a plain run was reported incomplete and true otherwise.
C18_IncompleteRunStopsSafePrint ==
    call.op = "safe_print" =>
        /\ \A k \in DOMAIN call.runs :
               LET run == call.runs[k]
               IN  /\ k < Len(call.runs) => (run.raised = None /\ run.complete)
                   /\ (run.raised = None /\ ~run.complete) =>
                          /\ \A j \in DOMAIN call.steps : call.steps[j].marker < run.first
                          /\ Len(call.out) = run.cells[2]
                          /\ call.raised = None
                          /\ call.complete = FALSE
        /\ (call.raised = None /\ call.complete = FALSE) =>
               (call.runs # <<>> /\ ~call.runs[Len(call.runs)].complete)

\* A plain run was reported incomplete, an escape sequence follows it in
\* the string, and safe_print has returned false.
C18_SequenceAfterIncompleteRun ==
    /\ call.op = "safe_print"
    /\ call.raised = None
    /\ call.complete = FALSE
    /\ call.runs # <<>>
    /\ call.runs[Len(call.runs)].last < Len(call.string)
    /\ call.string[call.runs[Len(call.runs)].last + 1] = ESC

(***************************************************************************)
(* The properties of new_window (SpecWindows).                             *)
(***************************************************************************)
\* The window on which the call in call was made.
Parent == windows[call.win]

\* C4: for every rectangle inside the parent window new_window succeeds and
\* the new window has the requested size, its origin at (x, y) of the
\* parent's coordinate space.
C4_ValidRectangleIsCreatedAsRequested ==
    (/\ call.op = "new_window"
     /\ 0 <= call.x /\ 0 <= call.y /\ 0 <= call.width /\ 0 <= call.height
     /\ call.x + call.width <= Parent.width
     /\ call.y + call.height <= Parent.height) =>
        /\ call.raised = None
        /\ windows[call.created].parent = call.win
        /\ windows[call.created].width = call.width
        /\ windows[call.created].height = call.height
        /\ windows[call.created].begin_x = Parent.begin_x + call.x
        /\ windows[call.created].begin_y = Parent.begin_y + call.y

\* The constraints on the arguments of new_window that the call in call
\* violates.
Offending ==
    {d \in {"x", "y", "width", "height"} :
        \/ d = "x" /\ ~(0 <= call.x /\ call.x <= Parent.width)
        \/ d = "y" /\ ~(0 <= call.y /\ call.y <= Parent.height)
        \/ d = "width" /\ ~(0 <= call.width /\ call.width <= Parent.width - call.x)
        \/ d = "height" /\ ~(0 <= call.height /\ call.height <= Parent.height - call.y)}

\* C5: when an argument of new_window violates its constraint, the call
\* raises the out-of-range error of a dimension that is violated, and no
\* window is created.
C5_InvalidArgumentIsRejected ==
    (call.op = "new_window" /\ Offending # {}) =>
        /\ call.raised = "ValueError"
        /\ \E d \in Offending : call.message = d \o " is out of range"
        /\ Len(windows) = call.before
        /\ call.created = 0

\* A child window is asked for a window higher than what remains below y,
\* its other arguments being in range.
C5_HeightOutOfRangeInChild ==
    /\ call.op = "new_window"
    /\ call.win > 1
    /\ Offending = {"height"}
    /\ call.height <= Parent.height
    /\ call.message = "height is out of range"

(***************************************************************************)
(* The properties of the color pair registry (SpecColors).                 *)
(***************************************************************************)
\* C10: no request for a color pair fails, the terminal binds no pair
\* number at or above COLOR_PAIRS, every pair of the registry has the
\* handle of the pair number bound to it or the handle of pair 0, and a
\* pair first requested when all pair numbers are bound gets the handle of
\* pair 0.
C10_RegistryNeverExceedsColorPairs ==
    /\ DOMAIN pair_table \subseteq 1..(COLOR_PAIRS - 1)
    /\ \A p \in DOMAIN color_pairs :
           \/ color_pairs[p] = color_pair(0)
           \/ /\ color_pairs[p].pair \in DOMAIN pair_table
              /\ pair_table[color_pairs[p].pair] = p
              /\ color_pairs[p] = color_pair(color_pairs[p].pair)
    /\ call.op = "get_color_pair" =>
           /\ call.raised = None
           /\ call.handle = color_pairs[<<call.fg, call.bg>>]
           /\ (~call.known /\ call.bound = COLOR_PAIRS - 1) => call.handle = color_pair(0)
           /\ (~call.known /\ call.bound < COLOR_PAIRS - 1) =>
                  call.handle = color_pair(call.bound + 1)

\* A pair is requested for the first time when all pair numbers are bound,
\* and gets the handle of pair 0.
C10_PairBeyondMaximum ==
    /\ call.op = "get_color_pair"
    /\ ~call.known
    /\ call.bound = COLOR_PAIRS - 1
    /\ Cardinality(DOMAIN color_pairs) > COLOR_PAIRS
    /\ call.handle = color_pair(0)

(***************************************************************************)
(* The properties of the reads of keys (SpecInput).                        *)
(***************************************************************************)
\* C11: of the keys a generator of wait_for_input has read, those with an
\* entry in the reaction table had their action invoked, once each and in
\* the turn of the loop that read them, and were not yielded; the others
\* were yielded as get_user_input returned them, in the order read, and
\* invoked nothing; next() returns exactly when a key without entry is
\* read; and the generator never finishes.
C11_ReactionsInvokedOthersYielded ==
    input # NoInput =>
        /\ input.invoked = SelectSeq(input.keys, LAMBDA k : k \in input.reactions)
        /\ input.yielded = SelectSeq(input.keys, LAMBDA k : k \notin input.reactions)
        /\ input.generator \in {"created", "running", "suspended"}
        /\ call.op = "next" =>
               /\ call.key = input.keys[Len(input.keys)]
               /\ call.key = UserInput(call.code)
               /\ call.returned <=> call.key \notin input.reactions
               /\ call.returned <=> input.generator = "suspended"
               /\ call.returned => input.yielded[Len(input.yielded)] = call.key
               /\ ~call.returned => input.invoked[Len(input.invoked)] = call.key

\* A generator has invoked the action of ESC, without yielding ESC, and
\* has yielded two other keys.
C11_ReactionInvokedAndKeysYielded ==
    /\ input # NoInput
    /\ call.op = "next"
    /\ call.returned
    /\ input.invoked = <<int(Keys.ESC)>>
    /\ Len(input.yielded) = 2
    /\ input.keys[2] = int(Keys.ESC)

\* C13: get_user_input returns the character of a code that is no member
\* of Curses.Keys and lies below KEY_MIN, the integer of a code that is a
\* member of Curses.Keys (27 for ESC, and not the character ESC), and -1,
\* never a character, when a timeout has elapsed without input.
C13_CodesBecomeCharactersOrKeys ==
    call.op = "get_user_input" =>
        /\ (call.code < KEY_MIN /\ \A k \in DOMAIN Keys : Keys[k] # call.code) =>
               call.value = [type |-> "str", value |-> call.code]
        /\ \A k \in DOMAIN Keys :
               Keys[k] = call.code => call.value = [type |-> "int", value |-> Keys[k]]
        /\ call.code = 27 => call.value = [type |-> "int", value |-> Keys.ESC]
        /\ call.code = -1 => call.value = [type |-> "int", value |-> Keys.NOKEY]

\* get_user_input has read the code of ESC and has returned the key ESC.
C13_EscStaysSymbolic ==
    /\ call.op = "get_user_input"
    /\ call.code = 27
    /\ call.value = int(Keys.ESC)

(***************************************************************************)
(* The properties of the terminal context (SpecContext).                   *)
(***************************************************************************)
\* The terminal is in the state curses put it in: initialised and not ended,
\* or without echo, in cbreak mode, with the cursor hidden or the keypad on.
TerminalConfigured ==
    \/ terminal.initialised
    \/ ~terminal.echo
    \/ terminal.cbreak
    \/ terminal.cursor = 0
    \/ terminal.keypad

\* C12: whenever control is outside the with statement, the terminal is not
\* in the configured state, whether the body ended normally or by an
\* exception and whether or not a configuration step of __enter__ failed.
C12_TerminalRestoredOutsideContext ==
    context = "outside" => ~TerminalConfigured

\* C19: the registry only grows: a pair keeps the handle it was first
\* given and a pair number keeps the pair it was bound to; the k-th distinct
\* pair requested, k below COLOR_PAIRS, is bound to the pair number k and
\* gets its handle, in the step that binds that number and no other; pairs
\* bound to pair numbers have distinct handles; and the counter of pair
\* numbers never decreases and never exceeds COLOR_PAIRS.
C19_RegistryAppendOnly ==
    /\ [](/\ next_pair_number \in 1..COLOR_PAIRS
          /\ DOMAIN pair_table = 1..(next_pair_number - 1)
          /\ \A p \in DOMAIN color_pairs, q \in DOMAIN color_pairs :
                 (p # q /\ color_pairs[p] = color_pairs[q]) =>
                     color_pairs[p] = color_pair(0))
    /\ [][/\ next_pair_number' >= next_pair_number
          /\ \A p \in DOMAIN color_pairs :
                 p \in DOMAIN color_pairs' /\ color_pairs'[p] = color_pairs[p]
          /\ \A n \in DOMAIN pair_table :
                 n \in DOMAIN pair_table' /\ pair_table'[n] = pair_table[n]
          /\ \A p \in DOMAIN color_pairs' \ DOMAIN color_pairs :
                 LET k == Cardinality(DOMAIN color_pairs) + 1
                 IN  IF k < COLOR_PAIRS
                     THEN /\ color_pairs'[p] = color_pair(k)
                          /\ DOMAIN pair_table' \ DOMAIN pair_table = {k}
                          /\ pair_table'[k] = p
                     ELSE /\ color_pairs'[p] = color_pair(0)
                          /\ pair_table' = pair_table]_vars

\* A pair that was given the handle of pair 0 when all pair numbers were
\* bound is requested again, and again, and has that handle still.
C19_AliasRequestedAgain ==
    /\ call.op = "get_color_pair"
    /\ call.known
    /\ next_pair_number = COLOR_PAIRS
    /\ Cardinality(DOMAIN color_pairs) > COLOR_PAIRS
    /\ <<call.fg, call.bg>> \notin {pair_table[n] : n \in DOMAIN pair_table}
    /\ call.handle = color_pair(0)

(***************************************************************************)
(* The properties of refresh (SpecRefresh).                                *)
(***************************************************************************)
\* C20: refresh on a window repaints the windows of its parent chain, each
\* once: first the window without parent, then each window right after its
\* parent, and last the window refresh was called on; a window without
\* parent repaints itself alone.
C20_RefreshRepaintsChainRootFirst ==
    call.op = "refresh" =>
        LET r == call.refreshed
        IN  /\ call.raised = None
            /\ r # <<>>
            /\ windows[r[1]].parent = 0
            /\ r[Len(r)] = call.win
            /\ \A k \in 2..Len(r) : windows[r[k]].parent = r[k - 1]
            /\ \A j \in DOMAIN r, k \in DOMAIN r : j # k => r[j] # r[k]
            /\ windows[call.win].parent = 0 => r = <<call.win>>

\* refresh was called on the child of a child of the root window.
C20_RefreshOfGrandchild ==
    /\ call.op = "refresh"
    /\ Len(call.refreshed) = 3
    /\ windows[call.win].parent # 0
    /\ windows[windows[call.win].parent].parent # 0

(***************************************************************************)
(* util/rapl.py: the difference of two snapshots of the RAPL energy        *)
(* counters.  A snapshot (RAPLCounter) has a timestamp and, for each       *)
(* domain, the counters of the domain by name; a counter has its reading   *)
(* uj and the range max of the reading.  Timestamps are integers.          *)
(***************************************************************************)
\* The largest value of max_energy_range_uj.
MaxEnergy == 6

\* RAPLCounterDiff.Counter(earlier, later): the object constructed, or the
\* exception that __init__ raised.  The name max_val is bound nowhere.
RAPLCounterDiffCounter(earlier, later) ==
    IF later.uj < earlier.uj
    THEN [raised |-> "NameError"]
    ELSE [raised |-> None,
          timediff |-> later.timestamp - earlier.timestamp,
          timestamp |-> later.timestamp,
          name |-> later.name, max |-> later.max,
          uj |-> later.uj - earlier.uj]

\* The exception of the first constructor in items that raised, if any.
FirstRaised(items) ==
    IF \E n \in DOMAIN items : items[n].raised # None
    THEN CHOOSE what \in {items[n].raised : n \in DOMAIN items} : what # None
    ELSE None

\* RAPLCounterDiff.DomainCounters(earlier, later)
RAPLCounterDiffDomainCounters(earlier, later) ==
    LET values == [n \in DOMAIN earlier.values |->
                       RAPLCounterDiffCounter(earlier.values[n], later.values[n])]
    IN  [raised |-> FirstRaised(values),
         timestamp |-> later.timestamp,
         timediff |-> later.timestamp - earlier.timestamp,
         values |-> values]

\* RAPLCounterDiff(earlier, later)
RAPLCounterDiff(earlier, later) ==
    LET values == [d \in DOMAIN earlier.values |->
                       RAPLCounterDiffDomainCounters(earlier.values[d], later.values[d])]
    IN  [raised |-> FirstRaised(values),
         earlier |-> earlier, later |-> later,
         timestamp |-> later.timestamp,
         timediff |-> later.timestamp - earlier.timestamp,
         values |-> values]

\* RAPLCounter.diff(other) on the snapshot self
diff(self, other) ==
    IF self.timestamp < other.timestamp
    THEN RAPLCounterDiff(self, other)
    ELSE RAPLCounterDiff(other, self)

\* RAPLCounter(): the snapshot taken at the time timestamp of a machine
\* with the domain 0 and its counter package-0, reading uj.
RAPLCounter(timestamp, uj, max) ==
    [timestamp |-> timestamp,
     values |-> [d \in {0} |->
         [timestamp |-> timestamp,
          values |-> [n \in {"package-0"} |->
              [name |-> n, uj |-> uj, max |-> max, timestamp |-> timestamp]]]]]

\* self - other (RAPLCounter.__sub__) for two snapshots of one machine.
CounterSub(self, other) ==
    /\ Idle
    /\ call' = [op |-> "diff", self |-> self, other |-> other] @@ diff(self, other)
    /\ UNCHANGED <<root, terminal, windows, next_pair_number, color_pairs, pair_table,
                   context, input, io>>

\* Two snapshots taken one after the other, subtracted either way round.
NextRapl ==
    \/ \E max \in 1..MaxEnergy, uj1 \in 0..MaxEnergy, uj2 \in 0..MaxEnergy :
           /\ uj1 <= max
           /\ uj2 <= max
           /\ \/ CounterSub(RAPLCounter(1, uj1, max), RAPLCounter(2, uj2, max))
              \/ CounterSub(RAPLCounter(2, uj2, max), RAPLCounter(1, uj1, max))
    \/ Resume

SpecRapl == Init /\ [][NextRapl]_vars

\* The counter package-0 of the domain 0 in a snapshot or in a difference.
Package(counters) == counters.values[0].values["package-0"]

\* C25: the difference of two snapshots has, for a counter, a non-negative
\* energy: the later reading less the earlier one, and when the counter has
\* wrapped around, max less the earlier reading plus the later one; no
\* exception is raised.
C25_DifferenceNonNegativeWithoutError ==
    call.op = "diff" =>
        /\ call.raised = None
        /\ Package(call).uj >= 0
        /\ Package(call).uj =
               IF Package(call.later).uj >= Package(call.earlier).uj
               THEN Package(call.later).uj - Package(call.earlier).uj
               ELSE Package(call.later).max - Package(call.earlier).uj
                        + Package(call.later).uj

(***************************************************************************)
(* The properties of the read timeout (SpecTimeout).                       *)
(***************************************************************************)
\* C22: Window.timeout and Window.get_user_input set the timeout at the
\* terminal layer when the value asked for differs from the one the window
\* has recorded, and make no call of the terminal layer otherwise; the
\* timeout a window has recorded is the read timeout of its curses window,
\* -1 for a new window; and a read runs under the timeout that its call
\* asked for.
C22_ReadsRunUnderRequestedTimeout ==
    /\ \A i \in 1..Len(windows) : windows[i].timeout = windows[i].delay
    /\ call.op \in {"timeout", "get_user_input"} =>
           call.set = IF call.before.timeout # call.timeout
                      THEN <<call.timeout>> ELSE <<>>
    /\ call.op = "get_user_input" => call.delay = call.timeout

(***************************************************************************)
(* The properties of __enter__ and __exit__ called in any order            *)
(* (SpecAcquire).  The context is acquired while self._root is not None;   *)
(* the terminal is initialised by initscr() and torn down by endwin().     *)
(***************************************************************************)
\* The number of calls of the function named in the trace.
Count(trace, function) == Cardinality({k \in DOMAIN trace : trace[k] = function})

\* C23: initscr() and endwin() alternate, initscr() first: the terminal is
\* initialised exactly while the context is acquired, __enter__ calls
\* initscr() once and not endwin() on a context not acquired and calls
\* nothing of the terminal layer on an acquired one, __exit__ calls nothing
\* of the terminal layer on a context not acquired, does not call initscr()
\* on an acquired one and ends with endwin() when it returns; and
\* root_window() is not None exactly while the context is acquired.
C23_InitialisationAndTeardownAlternate ==
    /\ terminal.initialised <=> root # None
    /\ (windows # <<>>) <=> root # None
    /\ call.op \in {"__enter__", "__exit__"} =>
           /\ (call.root_window # None) <=> root # None
           /\ call.before.initialised <=> call.acquired
    /\ (call.op = "__enter__" /\ call.acquired) =>
           /\ terminal.trace = <<>>
           /\ terminal = [call.before EXCEPT !.trace = <<>>]
           /\ call.raised = None
    /\ (call.op = "__enter__" /\ ~call.acquired) =>
           /\ terminal.trace[1] = "initscr"
           /\ Count(terminal.trace, "initscr") = 1
           /\ Count(terminal.trace, "endwin") = 0
           /\ terminal.initialised
    /\ (call.op = "__exit__" /\ ~call.acquired) =>
           /\ terminal.trace = <<>>
           /\ terminal = [call.before EXCEPT !.trace = <<>>]
           /\ call.raised = None
    /\ (call.op = "__exit__" /\ call.acquired) =>
           /\ Count(terminal.trace, "initscr") = 0
           /\ Count(terminal.trace, "endwin") <= 1
           /\ call.raised = None =>
                  /\ terminal.trace[Len(terminal.trace)] = "endwin"
                  /\ ~terminal.initialised

\* __enter__ has been called on a context already acquired, and has
\* returned.
C23_EnterOnAcquiredContext ==
    /\ call.op = "__enter__"
    /\ call.acquired
    /\ call.before.initialised
    /\ call.raised = None

(***************************************************************************)
(* The properties of the refresh argument (SpecRepaint).                   *)
(***************************************************************************)
\* C21: print, pretty_print and safe_print called with refresh=False
\* repaint no window, whatever the string; called with refresh=True they
\* repaint the window and its ancestors, the window last, after every cell
\* of the text has been written.
C21_RefreshArgumentDecidesRepaint ==
    call.op \in {"print", "pretty_print", "safe_print"} =>
        /\ ~call.refresh => call.refreshed = <<>>
        /\ call.refresh =>
               /\ call.refreshed # <<>>
               /\ call.refreshed[Len(call.refreshed)] = call.win
               /\ call.shown = Len(call.out)

(***************************************************************************)
(* util/io.py: NonBlockingStreamIO.  A line of the stream is the sequence  *)
(* of its bytes; the thread populate is at the call of stream.readline()   *)
(* ("readline"), holds the line it has read ("line"), has raised           *)
(* EndOfStream ("ended") or has died of another exception ("died").  The   *)
(* operations of queue.Queue are atomic.  A timeout of readline is None    *)
(* (NoneValue) or a number that is not negative (int(n)).                  *)
(***************************************************************************)
\* The largest number of lines of a stream.
MaxLines == 3

\* The value None, and the string of the characters with the given codes.
NoneValue == [type |-> "NoneType"]

str(codes) == [type |-> "str", value |-> codes]

\* line.decode(): the bytes below 128 are the characters of their codes; a
\* byte 255 occurs in no text.
decode(line) ==
    IF \E k \in DOMAIN line : line[k] = 255
    THEN [raised |-> "UnicodeDecodeError"]
    ELSE [raised |-> None, value |-> str(line)]

\* NonBlockingStreamIO(stream): lines are the lines that the stream will
\* deliver before it ends.
NonBlockingStreamIO(lines) ==
    [stream |-> lines, lines |-> lines, queue |-> <<>>, thread |-> "readline",
     line |-> <<>>, reader |-> "idle", timeout |-> NoneValue, returned |-> <<>>]

\* line = stream.readline() in populate: the next line, and no byte at the
\* end of the stream.
PopulateReadline(o) ==
    IF o.stream = <<>> THEN [o EXCEPT !.line = <<>>, !.thread = "line"]
    ELSE [o EXCEPT !.line = Head(o.stream), !.stream = Tail(@), !.thread = "line"]

\* queue.put(line.decode()), d being line.decode().
PopulateQueuePut(o, d) ==
    IF d.raised # None THEN [o EXCEPT !.thread = "died"]
    ELSE [o EXCEPT !.queue = Append(@, d.value), !.thread = "readline"]

\* The rest of the loop of populate for the line read.
PopulatePut(o) ==
    IF o.line = <<>> THEN [o EXCEPT !.thread = "ended"]
    ELSE PopulateQueuePut(o, decode(o.line))

\* A queue that hands out its newest item.
QueueGetNewest(o) ==
    [o |-> [o EXCEPT !.queue = SubSeq(@, 1, Len(@) - 1),
                     !.returned = Append(@, o.queue[Len(o.queue)])],
     value |-> o.queue[Len(o.queue)]]

\* self._queue.get() on a queue that is not empty.
QueueGet(o) ==
    [o |-> [o EXCEPT !.queue = Tail(@), !.returned = Append(@, Head(o.queue))],
     value |-> Head(o.queue)]

\* readline at the moment it looks into the queue: an item, or the
\* exception Empty when it does not wait, which makes the value None.
ReadlineGet(o) ==
    IF o.queue = <<>> THEN [o |-> o, value |-> NoneValue] ELSE QueueGet(o)

\* The record of a readline that has returned for the caller.
Returned(t, waited, r) ==
    /\ io' = [r.o EXCEPT !.reader = "idle"]
    /\ call' = [op |-> "readline", timeout |-> t, waited |-> waited,
                queue |-> io.queue, thread |-> io.thread, value |-> r.value]

\* The caller makes the NonBlockingStreamIO of a stream: the thread starts.
NewStreamIO(lines) ==
    /\ Idle
    /\ io = NoStream
    /\ io' = NonBlockingStreamIO(lines)
    /\ UNCHANGED <<root, terminal, windows, next_pair_number, color_pairs, pair_table,
                   call, context, input>>

\* A step of the thread populate.
Populate ==
    /\ io.thread \in {"readline", "line"}
    /\ io' = IF io.thread = "readline" THEN PopulateReadline(io) ELSE PopulatePut(io)
    /\ UNCHANGED <<root, terminal, windows, next_pair_number, color_pairs, pair_table,
                   call, context, input>>

\* readline(timeout) is called: without a timeout, with the timeout 0 or
\* with an item in the queue it returns at once; else it waits.
Readline(t) ==
    /\ Idle
    /\ io.reader = "idle"
    /\ IF t \in {NoneValue, int(0)} \/ io.queue # <<>>
       THEN Returned(t, FALSE, ReadlineGet(io))
       ELSE /\ io' = [io EXCEPT !.reader = "waiting", !.timeout = t]
            /\ UNCHANGED call
    /\ UNCHANGED <<root, terminal, windows, next_pair_number, color_pairs, pair_table,
                   context, input>>

\* The readline that waits returns: with the item that the thread has put
\* into the queue, or with None when the timeout has elapsed.
ReadlineWake ==
    /\ io.reader = "waiting"
    /\ Returned(io.timeout, TRUE, ReadlineGet(io))
    /\ UNCHANGED <<root, terminal, windows, next_pair_number, color_pairs, pair_table,
                   context, input>>

\* Streams of at most MaxLines lines: two lines of text, the empty line,
\* and a line that is no text.
StreamLines == {<<97, 10>>, <<98, 10>>, <<10>>, <<255, 10>>}

Streams == UNION {[1..n -> StreamLines] : n \in 0..MaxLines}

ReadTimeouts == {NoneValue, int(0), int(1)}

NextStream ==
    \/ \E lines \in Streams : NewStreamIO(lines)
    \/ Populate
    \/ \E t \in ReadTimeouts : Readline(t)
    \/ ReadlineWake
    \/ Resume

SpecStream == Init /\ [][NextStream]_vars

\* The text of a line of the stream.
Text(line) == [type |-> "str", value |-> line]

\* C24: without clear(), the lines that readline has returned, followed
\* by the lines in the queue, are the first lines of the stream as texts,
\* in the order of the stream; readline without a timeout does not wait,
\* and returns None when the queue is empty and the oldest line of the
\* queue otherwise; and when the thread has reached the end of the stream
\* and the queue is empty, readline returns None.
C24_ReadlineReturnsStreamPrefix ==
    /\ io # NoStream =>
           LET handed == io.returned \o io.queue
           IN  /\ Len(handed) <= Len(io.lines)
               /\ \A k \in DOMAIN handed : handed[k] = Text(io.lines[k])
    /\ (call.op = "readline" /\ call.timeout = NoneValue) =>
           /\ ~call.waited
           /\ call.value = IF call.queue = <<>> THEN NoneValue ELSE call.queue[1]
    /\ (call.op = "readline" /\ call.thread = "ended" /\ call.queue = <<>>) =>
           call.value = NoneValue

\* Every line of a stream of three lines has been returned, and a readline
\* after the end of the stream has returned None.
C24_StreamDrained ==
    /\ io # NoStream
    /\ Len(io.lines) = 3
    /\ Len(io.returned) = 3
    /\ call.op = "readline"
    /\ call.thread = "ended"
    /\ call.value = NoneValue

====
